---- MODULE Spec2Model ----
(***************************************************************************)
(* A model of the ChorusKernel rendering kernel.                           *)
(*                                                                         *)
(* The repository holds four variants of class Kernel:                     *)
(*   "hpp"    src/Sources/Kernel/C++/Kernel.hpp  (one LFO, frame loop)     *)
(*   "p000"   src/unnamed/part_000  (N LFOs, frameCount == 1 selects path) *)
(*   "p001"   src/unnamed/part_001  (one LFO, rampRemaining_ block split)  *)
(*   "readme" src/README.md         (N LFOs, isRamping() selects path)     *)
(* The variant is fixed at construction and every operation is modelled    *)
(* per variant from that variant's source.                                 *)
(*                                                                         *)
(* Numbers.  Samples and delays are integers.  A fraction in [0, 1] is a   *)
(* fixed-point integer in 0..Unity.  An output sample is in units of       *)
(* 1/Unity, so an output equal to the input sample s is Unity * s.         *)
(* An oscillator phase is an integer number of quarter cycles.             *)
(***************************************************************************)
EXTENDS Integers, Sequences, FiniteSets, TLC

VARIABLES kernel, format

vars == <<kernel, format>>

----------------------------------------------------------------------------
(* Bounds of the model *)

\* largest frame count of one render call
MaxFrames == 2
\* largest ramp duration, in frames, of one parameter change
MaxRamp == 2
\* size of the lfos_ array (MAX_LFOS{50} in the source), scaled down
MaxLfos == 2

----------------------------------------------------------------------------
(* Domains of the inputs *)

Variants == {"hpp", "p000", "p001", "readme"}
MultiVariants == {"p000", "readme"}
\* fixed-point representation of the fraction 1.0
Unity == 2
\* number of phase steps in one oscillator cycle
PhaseSteps == 4
Samples == {0, 1}
ChannelCounts == {1, 2}
SampleRates == {1000}
MaxDelays == {1}
PercentValues == {0, 100}
DelayValues == {0, 1}
RateValues == {0, 1}
BoolValues == {0, 1}
RampDurations == {0, MaxRamp}
LfoCounts == 1..MaxLfos
Addresses == {"Rate", "Depth", "Delay", "Dry", "Wet", "Odd90"}

\* C++ division of integers truncates toward zero
Div(a, b) == IF a >= 0 THEN a \div b ELSE -((-a) \div b)

Max(a, b) == IF a >= b THEN a ELSE b
Min(a, b) == IF a <= b THEN a ELSE b

----------------------------------------------------------------------------
(* DSPHeaders ramped parameter: value is the target, from the value the    *)
(* ramp started at, remaining the frames left of a ramp of duration frames *)

Settled(v) == [value |-> v, from |-> v, remaining |-> 0, duration |-> 0]

IsRampingParam(p) == p.remaining > 0

\* the interpolated value of the next frame
RampCurrent(p) ==
  IF p.remaining = 0 THEN p.value
  ELSE p.value - Div((p.value - p.from) * p.remaining, p.duration)

\* set(target, duration)
RampSet(p, target, duration) ==
  IF duration = 0 THEN Settled(target)
  ELSE [value |-> target, from |-> RampCurrent(p),
        remaining |-> duration, duration |-> duration]

\* get(): the settled target value
RampGet(p) == p.value

\* frameValue() returns RampCurrent(p) and leaves the parameter advanced
RampAdvance(p) ==
  IF p.remaining <= 1 THEN Settled(p.value)
  ELSE [p EXCEPT !.remaining = @ - 1]

\* stopRamping(): snap to the target
StopRamping(p) == Settled(p.value)

\* percentage parameter: 0..100 outside, 0..Unity inside; a value outside
\* 0..100 is clamped before it is stored
PercentageSet(p, percent, duration) ==
  RampSet(p, Div(Max(0, Min(percent, 100)) * Unity, 100), duration)

PercentageGet(p) == Div(RampGet(p) * 100, Unity)

PercentageNormalized(p) == RampGet(p)

\* Parameters::Percentage::get() of part_000: the settled internal value
ParametersPercentageGet(p) == RampGet(p)

\* boolean parameter: a stored number, true above 0.5
BoolSet(value) == IF 2 * value > 1 THEN 1 ELSE 0

BoolGet(b) == 2 * b > 1

----------------------------------------------------------------------------
(* DSPHeaders LFO *)

\* one cycle of the waveform in PhaseSteps steps, range [-1, 1]
Waveform(phase) ==
  CASE phase % PhaseSteps = 0 -> 0
    [] phase % PhaseSteps = 1 -> 1
    [] phase % PhaseSteps = 2 -> 0
    [] OTHER -> -1

DefaultLFO ==
  [sampleRate |-> 1000, waveform |-> "sinusoid", frequency |-> Settled(0),
   phase |-> 0, phaseOffset |-> 0]

LfoSetSampleRate(lfo, sampleRate) == [lfo EXCEPT !.sampleRate = sampleRate]

LfoSetWaveform(lfo, waveform) == [lfo EXCEPT !.waveform = waveform]

LfoSetFrequency(lfo, hz, duration) ==
  [lfo EXCEPT !.frequency = RampSet(@, hz, duration)]

\* setPhase(fraction of a cycle), given here in phase steps
LfoSetPhase(lfo, steps) == [lfo EXCEPT !.phaseOffset = steps % PhaseSteps]

LfoValue(lfo) == Waveform(lfo.phase + lfo.phaseOffset)

LfoQuadPhaseValue(lfo) == Waveform(lfo.phase + lfo.phaseOffset + PhaseSteps \div 4)

\* a frequency is in units of 1000 / PhaseSteps Hz, so that the frequency f
\* advances the phase by f * 1000 / sampleRate steps each sample
LfoIncrement(lfo) ==
  [lfo EXCEPT
     !.phase = (@ + Div(RampCurrent(lfo.frequency) * 1000, lfo.sampleRate))
                 % PhaseSteps,
     !.frequency = RampAdvance(@)]

----------------------------------------------------------------------------
(* DSPHeaders DelayBuffer: line[1] is the sample written last *)

NewDelayLine(size) == [i \in 1..size |-> 0]

DelayWrite(line, sample) ==
  IF Len(line) = 0 THEN line
  ELSE <<sample>> \o SubSeq(line, 1, Len(line) - 1)

\* read(offset): the sample offset writes behind the newest, circularly
DelayRead(line, offset) == line[(offset % Len(line)) + 1]

----------------------------------------------------------------------------
(* Kernel: construction and format configuration *)

IsMulti(k) == k.variant \in MultiVariants

\* Kernel::Kernel: the parameters and oscillators are default constructed;
\* rampRemaining_ has no initialiser, so part_001 starts with any value
NewKernel(variant, lfoCount, uninitialised) ==
  [variant |-> variant,
   lfoCount_ |-> IF variant \in MultiVariants THEN lfoCount ELSE 1,
   rate_ |-> Settled(0), depth_ |-> Settled(0), delay_ |-> Settled(0),
   dryMix_ |-> Settled(0), wetMix_ |-> Settled(0), odd90_ |-> 0,
   samplesPerMillisecond_ |-> 0, maxDelayMilliseconds_ |-> 0,
   delayLines_ |-> <<>>,
   lfos_ |-> IF variant \in MultiVariants
             THEN [i \in 1..MaxLfos |-> DefaultLFO]
             ELSE <<LfoSetWaveform(DefaultLFO,
                      IF variant = "hpp" THEN "triangle" ELSE "sinusoid")>>,
   rampRemaining_ |-> IF variant = "p001" THEN uninitialised ELSE 0]

\* the size without the factor 2
DelayLineSizeNotDoubled(maxDelayMilliseconds, samplesPerMillisecond) ==
  maxDelayMilliseconds * samplesPerMillisecond + 1

\* auto size = maxDelayMilliseconds * samplesPerMillisecond_ * 2 + 1
DelayLineSize(maxDelayMilliseconds, samplesPerMillisecond) ==
  maxDelayMilliseconds * samplesPerMillisecond * 2 + 1

\* lfo.setPhase(index / lfos_.size()): both operands are integers, the
\* quotient is an integer number of cycles; index counts from 0
InitializePhase(index, size) == (index \div size) * PhaseSteps

\* the body of the oscillator loop of initialize
InitializeLfo(lfo, index, size, sampleRate, rate, multi) ==
  LET configured ==
        LfoSetFrequency(
          LfoSetWaveform(LfoSetSampleRate(lfo, sampleRate), "sinusoid"),
          rate, 0)
  IN IF multi THEN LfoSetPhase(configured, InitializePhase(index, size))
     ELSE configured

\* initialize without delayLines_.clear(): the new lines follow the old
InitializeWithoutClear(k, channelCount, sampleRate, maxDelayMilliseconds) ==
  LET spm == sampleRate \div 1000
      rate == RampGet(k.rate_)
      size == DelayLineSize(maxDelayMilliseconds, spm)
  IN [k EXCEPT
        !.maxDelayMilliseconds_ = IF IsMulti(k) THEN maxDelayMilliseconds ELSE @,
        !.samplesPerMillisecond_ = spm,
        !.lfos_ = [i \in 1..Len(k.lfos_) |->
                     InitializeLfo(k.lfos_[i], i - 1, Len(k.lfos_), sampleRate,
                                   rate, IsMulti(k))],
        !.delayLines_ = @ \o [c \in 1..channelCount |-> NewDelayLine(size)]]

\* Kernel::initialize
Initialize(k, channelCount, sampleRate, maxDelayMilliseconds) ==
  LET spm == sampleRate \div 1000
      rate == RampGet(k.rate_)
      size == DelayLineSize(maxDelayMilliseconds, spm)
  IN [k EXCEPT
        !.maxDelayMilliseconds_ = IF IsMulti(k) THEN maxDelayMilliseconds ELSE @,
        !.samplesPerMillisecond_ = spm,
        !.lfos_ = [i \in 1..Len(k.lfos_) |->
                     InitializeLfo(k.lfos_[i], i - 1, Len(k.lfos_), sampleRate,
                                   rate, IsMulti(k))],
        !.delayLines_ = [c \in 1..channelCount |-> NewDelayLine(size)]]

\* Kernel::setRenderingFormat
SetRenderingFormat(k, channelCount, sampleRate, maxDelayMilliseconds) ==
  Initialize(k, channelCount, sampleRate, maxDelayMilliseconds)

----------------------------------------------------------------------------
(* Kernel: parameter changes *)

\* setRate with the rate_.set(...) line left out
SetRateWithoutParameter(k, rate, rampingDuration) ==
  [k EXCEPT
     !.lfos_ = [i \in 1..Len(k.lfos_) |->
                  LfoSetFrequency(k.lfos_[i], rate, rampingDuration)]]

\* setRate with the oscillator fan-out left out
SetRateWithoutOscillators(k, rate, rampingDuration) ==
  [k EXCEPT
     !.rate_ = RampSet(@, rate,
                 IF k.variant = "p000" THEN 0 ELSE rampingDuration)]

\* Kernel::setRate (Kernel.hpp, part_001, README) and
\* Kernel::setRateRamping (part_000)
SetRate(k, rate, rampingDuration) ==
  [k EXCEPT
     !.rate_ = RampSet(@, rate,
                 IF k.variant = "p000" THEN 0 ELSE rampingDuration),
     !.lfos_ = [i \in 1..Len(k.lfos_) |->
                  LfoSetFrequency(k.lfos_[i], rate, rampingDuration)]]

\* Kernel::setParameterValue / Kernel::setRampedParameterValue: the
\* dispatch on the parameter address
SetParameterValue(k, address, value, rampDuration) ==
  LET set ==
        CASE address = "Rate" -> SetRate(k, value, rampDuration)
          [] address = "Depth" ->
               [k EXCEPT !.depth_ = PercentageSet(@, value, rampDuration)]
          [] address = "Delay" ->
               [k EXCEPT !.delay_ = RampSet(@, value, rampDuration)]
          [] address = "Dry" ->
               [k EXCEPT !.dryMix_ = PercentageSet(@, value, rampDuration)]
          [] address = "Wet" ->
               [k EXCEPT !.wetMix_ = PercentageSet(@, value, rampDuration)]
          [] address = "Odd90" -> [k EXCEPT !.odd90_ = BoolSet(value)]
          [] OTHER -> k
  IN IF k.variant = "p001"
     THEN [set EXCEPT !.rampRemaining_ = Max(@, rampDuration)]
     ELSE set

\* Kernel::getParameterValue
GetParameterValue(k, address) ==
  CASE address = "Rate" -> RampGet(k.rate_)
    [] address = "Depth" -> PercentageGet(k.depth_)
    [] address = "Delay" -> RampGet(k.delay_)
    [] address = "Dry" -> PercentageGet(k.dryMix_)
    [] address = "Wet" -> PercentageGet(k.wetMix_)
    [] address = "Odd90" -> IF BoolGet(k.odd90_) THEN 1 ELSE 0
    [] OTHER -> 0

RampedParams(k) == <<k.rate_, k.depth_, k.delay_, k.dryMix_, k.wetMix_>>

\* EventProcessor::isRamping: some parameter of the kernel is ramping
IsRamping(k) == \E i \in 1..5 : IsRampingParam(RampedParams(k)[i])

\* doRenderingStateChanged with the wetMix_ line left out
StopAllRampingButWetMix(k) ==
  [k EXCEPT !.rate_ = StopRamping(@), !.depth_ = StopRamping(@),
            !.delay_ = StopRamping(@), !.dryMix_ = StopRamping(@)]

\* Kernel::doRenderingStateChanged of Kernel.hpp and README
StopAllRamping(k) ==
  [k EXCEPT !.rate_ = StopRamping(@), !.depth_ = StopRamping(@),
            !.delay_ = StopRamping(@), !.dryMix_ = StopRamping(@),
            !.wetMix_ = StopRamping(@)]

\* EventProcessor of part_000, whose handler is empty: what the base class
\* may do with the parameters given to registerParameter when rendering
\* stops
BaseStopRegistered(k) ==
  [k EXCEPT !.rate_ = StopRamping(@), !.depth_ = StopRamping(@),
            !.delay_ = StopRamping(@), !.dryMix_ = StopRamping(@),
            !.wetMix_ = StopRamping(@)]

\* the rendering-state notification as the kernel's own handler treats it:
\* the handler of part_000 is empty and part_001 has none
DoRenderingStateChanged(k, rendering) ==
  IF k.variant \in {"hpp", "readme"} /\ ~rendering THEN StopAllRamping(k)
  ELSE k

----------------------------------------------------------------------------
(* Kernel: rendering.  A block is a sequence of frames, a frame a sequence *)
(* of one input sample per channel.  Channel c of the source is element    *)
(* c + 1 of a frame.  A displacement is kept in units of 1/Unity.          *)

Floor(a, b) == IF a >= 0 THEN a \div b ELSE -((-a + b - 1) \div b)

ReadEvent(lfo, tap) ==
  [op |-> "read", lfo |-> lfo, offset |-> tap.offset, src |-> tap.src]

WriteEvent(sample) == [op |-> "write", sample |-> sample]

\* Kernel::calcDisplacement (part_000, README)
CalcDisplacement(k, nominal, displacementFraction) ==
  (k.maxDelayMilliseconds_ - nominal) * displacementFraction

\* Kernel::calcTap (part_000, README): the pair (evenTap, oddTap)
CalcTap(k, lfo, nominalMilliseconds, displacementMilliseconds, odd90) ==
  LET evenTap ==
        [offset |-> Floor((nominalMilliseconds * Unity
                            + LfoValue(lfo) * displacementMilliseconds)
                           * k.samplesPerMillisecond_, Unity),
         src |-> "value"]
      oddTap ==
        IF odd90
        THEN [offset |-> Floor((nominalMilliseconds * Unity
                                 + LfoQuadPhaseValue(lfo) * displacementMilliseconds)
                                * k.samplesPerMillisecond_, Unity),
              src |-> "quad"]
        ELSE evenTap
  IN [even |-> evenTap, odd |-> oddTap]

\* Kernel::calcTaps (part_000, README): the taps of the active oscillators
CalcTaps(k, nominalMilliseconds, displacementMilliseconds, odd90) ==
  [index \in 1..k.lfoCount_ |->
     CalcTap(k, k.lfos_[index], nominalMilliseconds, displacementMilliseconds,
             odd90)]

\* the oscillators after a calcTap that increments before and after it
\* reads the values
LfosAfterCalcTapsTwice(k) ==
  [index \in 1..Len(k.lfos_) |->
     IF index <= k.lfoCount_ THEN LfoIncrement(LfoIncrement(k.lfos_[index]))
     ELSE k.lfos_[index]]

\* the oscillators after calcTaps: calcTap increments each active one
LfosAfterCalcTaps(k) ==
  [index \in 1..Len(k.lfos_) |->
     IF index <= k.lfoCount_ THEN LfoIncrement(k.lfos_[index])
     ELSE k.lfos_[index]]

\* the tap generate reads for one oscillator
GenerateTap(tap, isEven) == IF isEven THEN tap.even ELSE tap.odd

RECURSIVE SumReads(_, _, _, _)
SumReads(line, taps, isEven, index) ==
  IF index = 0 THEN 0
  ELSE SumReads(line, taps, isEven, index - 1)
       + DelayRead(line, GenerateTap(taps[index], isEven).offset)

\* Kernel::generate (part_000, README)
Generate(k, line, taps, isEven) ==
  Div(SumReads(line, taps, isEven, k.lfoCount_), k.lfoCount_)

\* the third argument writeSample gives generate: channel & 1
WriteSampleIsEven(channel) == channel % 2 = 1

\* Kernel::writeSample (part_000, README), one channel of it
WriteSampleChannel(k, channel, inputSample, taps, wetMix, dryMix) ==
  LET line == k.delayLines_[channel + 1]
      isEven == WriteSampleIsEven(channel)
      outputSample == Generate(k, line, taps, isEven)
  IN [line |-> DelayWrite(line, inputSample),
      wet |-> outputSample,
      out |-> wetMix * outputSample + dryMix * inputSample,
      log |-> [index \in 1..k.lfoCount_ |->
                 ReadEvent(index, GenerateTap(taps[index], isEven))]
              \o <<WriteEvent(inputSample)>>]

\* the values of the ramped parameters a frame computes with
Used(delay, depth, wetMix, dryMix) ==
  [delay |-> delay, depth |-> depth, wetMix |-> wetMix, dryMix |-> dryMix]

\* one frame of part_000 and README: calcTaps, then writeSample
MultiFrame(k, ins, nominal, displacementFraction, displacement, odd90, wetMix, dryMix) ==
  LET taps == CalcTaps(k, nominal, displacement, odd90)
      ch == [c \in 1..Len(ins) |->
               WriteSampleChannel(k, c - 1, ins[c], taps, wetMix, dryMix)]
  IN [k |-> [k EXCEPT !.lfos_ = LfosAfterCalcTaps(k),
                      !.delayLines_ = [c \in 1..Len(ins) |-> ch[c].line]],
      out |-> [c \in 1..Len(ins) |-> ch[c].out],
      wet |-> [c \in 1..Len(ins) |-> ch[c].wet],
      log |-> [c \in 1..Len(ins) |-> ch[c].log],
      taps |-> taps,
      used |-> Used(nominal, displacementFraction, wetMix, dryMix)]

\* the frameValue() calls of a frame with the one of wetMix_ left out
AdvanceFrameValuesButWetMix(k) ==
  [k EXCEPT !.delay_ = RampAdvance(@), !.depth_ = RampAdvance(@),
            !.dryMix_ = RampAdvance(@)]

\* the frameValue() calls of a frame leave the four parameters advanced
AdvanceFrameValues(k) ==
  [k EXCEPT !.delay_ = RampAdvance(@), !.depth_ = RampAdvance(@),
            !.wetMix_ = RampAdvance(@), !.dryMix_ = RampAdvance(@)]

InUnit(x) == x >= 0 /\ x <= Unity

\* the result of rendering no frame
NoFrames(k) ==
  [k |-> k, outs |-> <<>>, wets |-> <<>>, logs |-> <<>>, taps |-> <<>>,
   used |-> <<>>, asserts |-> TRUE]

AppendFrame(r, f, asserts) ==
  [k |-> f.k, outs |-> Append(r.outs, f.out), wets |-> Append(r.wets, f.wet),
   logs |-> Append(r.logs, f.log), taps |-> Append(r.taps, f.taps),
   used |-> Append(r.used, f.used), asserts |-> r.asserts /\ asserts]

\* the per-sample strategy of part_000 and README
MultiPerSample(k, ins) ==
  LET nominal == RampCurrent(k.delay_)
      displacementFraction == RampCurrent(k.depth_)
  IN MultiFrame(AdvanceFrameValues(k), ins, nominal, displacementFraction,
                CalcDisplacement(k, nominal, displacementFraction),
                BoolGet(k.odd90_), RampCurrent(k.wetMix_),
                RampCurrent(k.dryMix_))

\* the per-block depth taken with get(), a percentage, where the source
\* takes normalized()
BlockDepthAsPercentage(k) == PercentageGet(k.depth_)

\* the settled values the per-block strategy fetches once
BlockDepth(k) ==
  IF k.variant = "p000" THEN ParametersPercentageGet(k.depth_)
  ELSE PercentageNormalized(k.depth_)

\* the per-block wet mix taken as the percentage, not the fraction
BlockWetMixAsPercentage(k) == PercentageGet(k.wetMix_)

BlockWetMix(k) ==
  IF k.variant = "p000" THEN ParametersPercentageGet(k.wetMix_)
  ELSE PercentageNormalized(k.wetMix_)

BlockDryMix(k) ==
  IF k.variant = "p000" THEN ParametersPercentageGet(k.dryMix_)
  ELSE PercentageNormalized(k.dryMix_)

RECURSIVE MultiBlockLoop(_, _, _, _, _, _, _, _)
MultiBlockLoop(r, ins, nominal, displacementFraction, displacement, odd90, wetMix, dryMix) ==
  IF ins = <<>> THEN r
  ELSE MultiBlockLoop(
         AppendFrame(r, MultiFrame(r.k, Head(ins), nominal,
                                   displacementFraction, displacement,
                                   odd90, wetMix, dryMix), TRUE),
         Tail(ins), nominal, displacementFraction, displacement, odd90,
         wetMix, dryMix)

\* the per-block strategy of part_000 and README
MultiPerBlock(k, ins) ==
  LET nominal == RampGet(k.delay_)
      displacementFraction == BlockDepth(k)
      displacement == CalcDisplacement(k, nominal, displacementFraction)
      r == MultiBlockLoop(NoFrames(k), ins, nominal, displacementFraction,
                          displacement, BoolGet(k.odd90_), BlockWetMix(k), BlockDryMix(k))
  IN [r EXCEPT !.asserts =
        k.variant = "p000"
        \/ (InUnit(displacementFraction) /\ InUnit(BlockWetMix(k))
            /\ InUnit(BlockDryMix(k)))]

\* the condition that selects the per-sample strategy
TakesPerSample(k, frameCount) ==
  IF k.variant = "readme" THEN IsRamping(k) \/ frameCount = 1
  ELSE frameCount = 1

\* Kernel::doRendering of part_000 and README.  The per-sample branch
\* renders one frame whatever frameCount is.
MultiDoRendering(k, ins) ==
  IF TakesPerSample(k, Len(ins))
  THEN AppendFrame(NoFrames(k), MultiPerSample(k, Head(ins)),
                   k.variant = "p000"
                   \/ (Len(ins) = 1 /\ InUnit(RampCurrent(k.depth_))))
  ELSE MultiPerBlock(k, ins)

----------------------------------------------------------------------------
(* Rendering of the one-oscillator variants, Kernel.hpp and part_001 *)

\* constexpr AUValue minTap = 1.0E-3, as its reciprocal
MinTapReciprocal == 1000

\* evenTap / oddTap of Kernel.hpp: lfo_.value() * displacement + tap
HppTaps(lfo, tap, displacement) ==
  [even |-> [offset |-> Floor(LfoValue(lfo) * displacement + tap * Unity, Unity),
             src |-> "value"],
   odd |-> [offset |-> Floor(LfoQuadPhaseValue(lfo) * displacement + tap * Unity,
                             Unity),
            src |-> "quad"]]

\* ((channel & 1) && odd90) ? oddTap : evenTap
SelectTap(taps, channel, odd90) ==
  IF channel % 2 = 1 /\ odd90 THEN taps.odd ELSE taps.even

\* the channel loop with the two mix weights exchanged
HppChannelMixExchanged(line, channel, inputSample, taps, odd90, wetMix, dryMix) ==
  LET tap == SelectTap(taps, channel, odd90)
      delayedSample == DelayRead(line, tap.offset)
  IN [line |-> DelayWrite(line, inputSample),
      wet |-> delayedSample,
      out |-> dryMix * delayedSample + wetMix * inputSample,
      log |-> <<ReadEvent(1, tap), WriteEvent(inputSample)>>]

\* the channel loop writing the input sample before it reads the line
HppChannelWriteFirst(line, channel, inputSample, taps, odd90, wetMix, dryMix) ==
  LET tap == SelectTap(taps, channel, odd90)
      written == DelayWrite(line, inputSample)
      delayedSample == DelayRead(written, tap.offset)
  IN [line |-> written,
      wet |-> delayedSample,
      out |-> wetMix * delayedSample + dryMix * inputSample,
      log |-> <<WriteEvent(inputSample), ReadEvent(1, tap)>>]

\* the body of the channel loop of Kernel.hpp: read, then write
HppChannel(line, channel, inputSample, taps, odd90, wetMix, dryMix) ==
  LET tap == SelectTap(taps, channel, odd90)
      delayedSample == DelayRead(line, tap.offset)
  IN [line |-> DelayWrite(line, inputSample),
      wet |-> delayedSample,
      out |-> wetMix * delayedSample + dryMix * inputSample,
      log |-> <<ReadEvent(1, tap), WriteEvent(inputSample)>>]

\* one pass of the frame loop of Kernel::doRendering of Kernel.hpp
HppFrame(k, ins) ==
  LET tap == RampCurrent(k.delay_)
      displacementFraction == RampCurrent(k.depth_)
      displacement == tap * displacementFraction
      wetMix == RampCurrent(k.wetMix_)
      dryMix == RampCurrent(k.dryMix_)
      taps == HppTaps(k.lfos_[1], tap, displacement)
      ch == [c \in 1..Len(ins) |->
               HppChannel(k.delayLines_[c], c - 1, ins[c], taps,
                          BoolGet(k.odd90_), wetMix, dryMix)]
  IN [k |-> [AdvanceFrameValues(k) EXCEPT
               !.lfos_ = <<LfoIncrement(k.lfos_[1])>>,
               !.delayLines_ = [c \in 1..Len(ins) |-> ch[c].line]],
      out |-> [c \in 1..Len(ins) |-> ch[c].out],
      wet |-> [c \in 1..Len(ins) |-> ch[c].wet],
      log |-> [c \in 1..Len(ins) |-> ch[c].log],
      taps |-> <<taps>>,
      used |-> Used(tap, displacementFraction, wetMix, dryMix),
      asserts |-> InUnit(displacementFraction) /\ InUnit(wetMix)
                  /\ InUnit(dryMix)]

RECURSIVE HppLoop(_, _)
HppLoop(r, ins) ==
  IF ins = <<>> THEN r
  ELSE LET f == HppFrame(r.k, Head(ins))
       IN HppLoop(AppendFrame(r, f, f.asserts), Tail(ins))

\* Kernel::doRendering of Kernel.hpp
HppDoRendering(k, ins) == HppLoop(NoFrames(k), ins)

\* evenDelay / oddDelay of part_001, the displacement in units of
\* 1 / (Unity * MinTapReciprocal)
P001Taps(lfo, tap, displacement) ==
  [even |-> [offset |-> Floor(LfoValue(lfo) * displacement
                               + tap * Unity * MinTapReciprocal,
                              Unity * MinTapReciprocal),
             src |-> "value"],
   odd |-> [offset |-> Floor(LfoQuadPhaseValue(lfo) * displacement
                              + tap * Unity * MinTapReciprocal,
                             Unity * MinTapReciprocal),
            src |-> "quad"]]

\* the body of the channel loop of part_001: the delay line is read and
\* written only when the displacement is not zero
P001Channel(line, channel, inputSample, taps, displacement, odd90, wetMix, dryMix) ==
  LET tap == SelectTap(taps, channel, odd90)
      delayedSample ==
        IF displacement # 0 THEN DelayRead(line, tap.offset) ELSE inputSample
  IN [line |-> IF displacement # 0 THEN DelayWrite(line, inputSample) ELSE line,
      wet |-> delayedSample,
      out |-> wetMix * delayedSample + dryMix * inputSample,
      log |-> IF displacement # 0
              THEN <<ReadEvent(1, tap), WriteEvent(inputSample)>>
              ELSE <<>>]

\* one pass of the frame loop of Kernel::renderFrames
P001Frame(k, ins, tap, displacementFraction, displacement, odd90, wetMix, dryMix) ==
  LET taps == P001Taps(k.lfos_[1], tap, displacement)
      ch == [c \in 1..Len(ins) |->
               P001Channel(k.delayLines_[c], c - 1, ins[c], taps, displacement,
                           odd90, wetMix, dryMix)]
  IN [k |-> [k EXCEPT !.lfos_ = <<LfoIncrement(k.lfos_[1])>>,
                      !.delayLines_ = [c \in 1..Len(ins) |-> ch[c].line]],
      out |-> [c \in 1..Len(ins) |-> ch[c].out],
      wet |-> [c \in 1..Len(ins) |-> ch[c].wet],
      log |-> [c \in 1..Len(ins) |-> ch[c].log],
      taps |-> <<taps>>,
      used |-> Used(tap, displacementFraction, wetMix, dryMix)]

RECURSIVE P001Loop(_, _, _, _, _, _, _, _)
P001Loop(r, ins, tap, displacementFraction, displacement, odd90, wetMix, dryMix) ==
  IF ins = <<>> THEN r
  ELSE P001Loop(
         AppendFrame(r, P001Frame(r.k, Head(ins), tap, displacementFraction,
                                  displacement, odd90, wetMix, dryMix), TRUE),
         Tail(ins), tap, displacementFraction, displacement, odd90, wetMix,
         dryMix)

\* Kernel::renderFrames of part_001, continuing the result r
RenderFrames(r, ins) ==
  LET k == r.k
      tap == RampCurrent(k.delay_)
      displacementFraction == RampCurrent(k.depth_)
      displacement ==
        Max(tap * MinTapReciprocal - 1, 0) * displacementFraction
      wetMix == RampCurrent(k.wetMix_)
      dryMix == RampCurrent(k.dryMix_)
      start == [r EXCEPT
                  !.k = AdvanceFrameValues(k),
                  !.asserts = @ /\ InUnit(displacementFraction)
                              /\ InUnit(wetMix) /\ InUnit(dryMix)]
  IN P001Loop(start, ins, tap, displacementFraction, displacement,
              BoolGet(k.odd90_), wetMix, dryMix)

RECURSIVE P001RampLoop(_, _, _)
P001RampLoop(r, ins, rampCount) ==
  IF rampCount = 0 THEN r
  ELSE P001RampLoop(RenderFrames(r, <<ins[Len(r.outs) + 1]>>), ins, rampCount - 1)

\* doRendering of part_001 without the frames that follow the ramp
P001DoRenderingRampOnly(k, ins) ==
  LET rampCount == Min(k.rampRemaining_, Len(ins))
  IN P001RampLoop(NoFrames([k EXCEPT !.rampRemaining_ = @ - rampCount]),
                  ins, rampCount)

\* Kernel::doRendering of part_001
P001DoRendering(k, ins) ==
  LET frameCount == Len(ins)
      rampCount == Min(k.rampRemaining_, frameCount)
      ramped == P001RampLoop(
                  NoFrames([k EXCEPT !.rampRemaining_ = @ - rampCount]),
                  ins, rampCount)
  IN IF frameCount - rampCount > 0
     THEN RenderFrames(ramped, SubSeq(ins, rampCount + 1, frameCount))
     ELSE ramped

\* Kernel::doRendering of the variant of the kernel
DoRendering(k, ins) ==
  CASE k.variant = "hpp" -> HppDoRendering(k, ins)
    [] k.variant = "p001" -> P001DoRendering(k, ins)
    [] OTHER -> MultiDoRendering(k, ins)

----------------------------------------------------------------------------
(* The state machine.  kernel is the Kernel object, format the rendering   *)
(* format the base class holds (channelCount 0 before the first one).      *)

Frames(channelCount) == [1..channelCount -> Samples]

BlocksOf(channelCount, samples) ==
  UNION {[1..n -> [1..channelCount -> samples]] : n \in 1..MaxFrames}

Blocks(channelCount) == BlocksOf(channelCount, Samples)

NoFormat == [channelCount |-> 0, sampleRate |-> 0, maxDelayMilliseconds |-> 0]

Configured == format.channelCount > 0

ValuesOf(address) ==
  CASE address = "Rate" -> RateValues
    [] address = "Delay" -> DelayValues
    [] address = "Odd90" -> BoolValues
    [] OTHER -> PercentValues

ParamOf(k, address) ==
  CASE address = "Rate" -> k.rate_
    [] address = "Depth" -> k.depth_
    [] address = "Delay" -> k.delay_
    [] address = "Dry" -> k.dryMix_
    [] address = "Wet" -> k.wetMix_
    [] OTHER -> Settled(k.odd90_)

RampedAddresses == Addresses \ {"Odd90"}

\* some parameter other than the one at address is ramping
OtherIsRamping(k, address) ==
  \E other \in RampedAddresses \ {address} : IsRampingParam(ParamOf(k, other))

Init ==
  /\ \E variant \in Variants, lfoCount \in LfoCounts, uninitialised \in 0..MaxRamp :
       /\ variant \notin MultiVariants => lfoCount = 1
       /\ variant # "p001" => uninitialised = 0
       /\ kernel = NewKernel(variant, lfoCount, uninitialised)
  /\ format = NoFormat

SetRenderingFormatAction ==
  \E channelCount \in ChannelCounts, sampleRate \in SampleRates,
     maxDelayMilliseconds \in MaxDelays :
    /\ kernel' = SetRenderingFormat(kernel, channelCount, sampleRate,
                                    maxDelayMilliseconds)
    /\ format' = [channelCount |-> channelCount, sampleRate |-> sampleRate,
                  maxDelayMilliseconds |-> maxDelayMilliseconds]

\* a parameter change that takes effect at once
SetParameterValueAction ==
  \E address \in Addresses :
    \E value \in ValuesOf(address) :
      /\ kernel' = SetParameterValue(kernel, address, value, 0)
      /\ UNCHANGED format

\* a parameter change with a ramp; the host ramps one parameter at a time
SetRampedParameterValueAction ==
  \E address \in RampedAddresses :
    \E value \in ValuesOf(address) :
      /\ ~OtherIsRamping(kernel, address)
      /\ kernel' = SetParameterValue(kernel, address, value, MaxRamp)
      /\ UNCHANGED format

\* the base class of part_000 is outside the source: it may or may not stop
\* the registered parameters
RenderingStateChangedAction ==
  \E rendering \in BOOLEAN :
    /\ \/ kernel' = DoRenderingStateChanged(kernel, rendering)
       \/ /\ kernel.variant = "p000"
          /\ ~rendering
          /\ kernel' = BaseStopRegistered(kernel)
    /\ UNCHANGED format

\* the blocks that carry the same signal on every channel
MonoBlocks(channelCount, samples) ==
  UNION {[1..n -> {[c \in 1..channelCount |-> s] : s \in samples}] :
           n \in 1..MaxFrames}

\* a render call with a block of a signal
DoRenderingAction ==
  /\ Configured
  /\ \E ins \in MonoBlocks(format.channelCount, Samples) :
       kernel' = DoRendering(kernel, ins).k
  /\ UNCHANGED format

\* a render call with a block of silence
DoRenderingSilenceAction ==
  /\ Configured
  /\ \E ins \in MonoBlocks(format.channelCount, {0}) :
       kernel' = DoRendering(kernel, ins).k
  /\ UNCHANGED format

\* the kernel under a host that changes parameters at once and renders
\* any signal
Next ==
  \/ SetRenderingFormatAction
  \/ SetParameterValueAction
  \/ RenderingStateChangedAction
  \/ DoRenderingAction

Spec == Init /\ [][Next]_vars

\* the kernel under a host that ramps its parameter changes and renders
\* silence
NextRamp ==
  \/ SetRenderingFormatAction
  \/ SetRampedParameterValueAction
  \/ RenderingStateChangedAction
  \/ DoRenderingSilenceAction

SpecRamp == Init /\ [][NextRamp]_vars

----------------------------------------------------------------------------
(* Observations used by the properties *)

ChannelCount == Len(kernel.delayLines_)

\* a block of n frames of silence
Silence(n) == [f \in 1..n |-> [c \in 1..ChannelCount |-> 0]]

\* some delay line holds a sample that is not silence
HasHistory == \E c \in 1..ChannelCount : \E i \in 1..Len(kernel.delayLines_[c]) :
                kernel.delayLines_[c][i] # 0

\* the read events of channel c (counted from 0) in frame f of a result
ReadsOf(r, f, c) ==
  {r.logs[f][c + 1][i] : i \in {j \in 1..Len(r.logs[f][c + 1]) :
                                  r.logs[f][c + 1][j].op = "read"}}

\* the nominal delay is within the maximum delay of the format
DelayInRange ==
  /\ RampCurrent(kernel.delay_) >= 0
  /\ RampCurrent(kernel.delay_) <= format.maxDelayMilliseconds

----------------------------------------------------------------------------
(* C1 *)

----------------------------------------------------------------------------
(* C2 *)

DryPassthroughSettings ==
  /\ Configured
  /\ ~IsRamping(kernel)
  /\ PercentageGet(kernel.depth_) = 0
  /\ PercentageGet(kernel.wetMix_) = 0
  /\ PercentageGet(kernel.dryMix_) = 100

\* C2: with depth 0, wet mix 0 and dry mix 100% settled, a render call
\* writes to every channel of every frame the input sample of that channel
\* and frame, whatever the delay lines hold and wherever the oscillators are.
C2_DryPassthrough ==
  DryPassthroughSettings =>
    \A ins \in Blocks(ChannelCount) :
      DoRendering(kernel, ins).outs =
        [f \in 1..Len(ins) |-> [c \in 1..ChannelCount |-> Unity * ins[f][c]]]

\* the settings hold after rendering moved the oscillator and filled a line
C2_Witness ==
  /\ DryPassthroughSettings
  /\ HasHistory
  /\ kernel.lfos_[1].phase # 0

----------------------------------------------------------------------------
(* C3 *)

\* a block of n frames of silence whose last frame is the frame last
EndingWith(n, last) == [Silence(n) EXCEPT ![n] = last]

\* in the log of a channel every read comes before every write
ReadsBeforeWrites(log) ==
  \A i, j \in 1..Len(log) :
    (log[i].op = "read" /\ log[j].op = "write") => i < j

----------------------------------------------------------------------------
(* C4 *)

\* the tap of the pair that channel c (counted from 0) is to read: the even
\* tap on an even channel, the odd tap on an odd channel, the odd tap being
\* the even one unless odd90 is enabled
TapOfChannel(tap, c) ==
  IF c % 2 = 1 /\ BoolGet(kernel.odd90_) THEN tap.odd ELSE tap.even

\* C4: for every channel c and every oscillator, the delay line of channel
\* c is read at the even tap offset when c is even and at the odd tap
\* offset when c is odd.
C4_ChannelParityTap ==
  Configured =>
    LET r == DoRendering(kernel, Silence(1))
    IN \A c \in 0..(ChannelCount - 1) : \A e \in ReadsOf(r, 1, c) :
         e.offset = TapOfChannel(r.taps[1][e.lfo], c).offset

----------------------------------------------------------------------------
(* C5 *)

\* C5: after a format configuration oscillator i of the oscillatorCount
\* active ones has the phase offset i / oscillatorCount of a cycle, so the
\* active oscillators have distinct, evenly spaced phase offsets.
C5_PhaseSpread ==
  (Configured /\ IsMulti(kernel)) =>
    /\ \A i \in 0..(kernel.lfoCount_ - 1) :
         kernel.lfos_[i + 1].phaseOffset * kernel.lfoCount_ = i * PhaseSteps
    /\ \A i, j \in 1..kernel.lfoCount_ :
         i # j => kernel.lfos_[i].phaseOffset # kernel.lfos_[j].phaseOffset

----------------------------------------------------------------------------
(* C6 *)

\* C6: every offset given to a delay line read during rendering is not
\* negative, for every oscillator value, every depth in [0, 100]% and every
\* nominal delay in [0, maxDelayMilliseconds].
C6_NonNegativeOffsets ==
  (Configured /\ DelayInRange) =>
    LET r == DoRendering(kernel, Silence(1))
    IN \A c \in 0..(ChannelCount - 1) : \A e \in ReadsOf(r, 1, c) :
         e.offset >= 0

----------------------------------------------------------------------------
(* C7 *)

\* C7: every delay line has the capacity maxDelayMilliseconds x
\* samplesPerMillisecond x 2 + 1 fixed at the format configuration, and
\* every tap offset computed during rendering is strictly less than it, for
\* every nominal delay in [0, maxDelayMilliseconds] and depth in [0, 100]%.
C7_Capacity ==
  Configured =>
    /\ ChannelCount = format.channelCount
    /\ \A c \in 1..ChannelCount :
         Len(kernel.delayLines_[c]) =
           format.maxDelayMilliseconds * (format.sampleRate \div 1000) * 2 + 1
    /\ DelayInRange =>
         LET r == DoRendering(kernel, Silence(1))
         IN \A c \in 0..(ChannelCount - 1) : \A e \in ReadsOf(r, 1, c) :
              e.offset < Len(kernel.delayLines_[c + 1])

\* a frame reads at the largest offset, twice the maximum delay, with the
\* delay at its maximum and the depth at 100%
C7_Witness ==
  /\ Configured
  /\ RampGet(kernel.delay_) = format.maxDelayMilliseconds
  /\ PercentageGet(kernel.depth_) = 100
  /\ \E c \in 0..(ChannelCount - 1) :
       \E e \in ReadsOf(DoRendering(kernel, Silence(1)), 1, c) :
         e.offset = Len(kernel.delayLines_[c + 1]) - 1

----------------------------------------------------------------------------
(* C8 *)

----------------------------------------------------------------------------
(* C9 *)

----------------------------------------------------------------------------
(* C10 *)

\* the frames of ins rendered by one call of doRendering each
RECURSIVE OneAtATime(_, _)
OneAtATime(r, ins) ==
  IF ins = <<>> THEN r
  ELSE LET one == DoRendering(r.k, <<Head(ins)>>)
       IN OneAtATime([k |-> one.k, outs |-> r.outs \o one.outs,
                      wets |-> r.wets \o one.wets, logs |-> r.logs \o one.logs,
                      taps |-> r.taps \o one.taps,
                      used |-> r.used \o one.used,
                      asserts |-> r.asserts /\ one.asserts],
                     Tail(ins))

\* C10: when no parameter is ramping, rendering a block of N > 1 frames
\* gives the same outputs, delay lines and oscillators as rendering the N
\* frames one at a time.
C10_BlockEqualsSamples ==
  (Configured /\ ~IsRamping(kernel)) =>
    \A ins \in Blocks(ChannelCount) :
      Len(ins) > 1 =>
        LET block == DoRendering(kernel, ins)
            single == OneAtATime(NoFrames(kernel), ins)
        IN /\ block.outs = single.outs
           /\ block.k.delayLines_ = single.k.delayLines_
           /\ block.k.lfos_ = single.k.lfos_
           /\ block.k = single.k

\* README kernel with full depth and wet mix, its lines holding a signal
\* and its oscillator moved
C10_Witness ==
  /\ Configured
  /\ ~IsRamping(kernel)
  /\ kernel.variant = "readme"
  /\ PercentageGet(kernel.depth_) = 100
  /\ PercentageGet(kernel.wetMix_) = 100
  /\ HasHistory
  /\ kernel.lfos_[1].phase # 0

----------------------------------------------------------------------------
(* C11 *)

\* the parameters whose per-frame value rendering computes with
FrameValueAddresses == {"Depth", "Delay", "Dry", "Wet"}

\* the value of the parameter at address among the values a frame used
UsedOf(used, address) ==
  CASE address = "Depth" -> used.depth
    [] address = "Delay" -> used.delay
    [] address = "Dry" -> used.dryMix
    [] OTHER -> used.wetMix

\* frames rendered after a change: the ramp, the frame after it, one more
RampFrames == MaxRamp + 2

\* the sequence moves from v0 to target without turning back and has
\* reached target from frame n (counted from 0) on
MovesToward(seq, v0, target, n) ==
  /\ seq[1] = v0
  /\ \A i, j \in 1..Len(seq) :
       i < j => /\ target >= v0 => (seq[i] <= seq[j] /\ seq[j] <= target)
                /\ target <= v0 => (seq[i] >= seq[j] /\ seq[j] >= target)
  /\ \A i \in (n + 1)..Len(seq) : seq[i] = target

\* x lies between a and b, the ends included
Between(x, a, b) == (a <= x /\ x <= b) \/ (b <= x /\ x <= a)

----------------------------------------------------------------------------
(* C12 *)

\* format parameters a kernel cannot render with
InvalidSampleRates == {0}
UnsupportedChannelCounts == {0}

\* C12: a format configuration with an invalid sample rate or an
\* unsupported channel count leaves samplesPerMillisecond, the oscillators
\* and the delay lines of the kernel as they were before the call.
C12_InvalidFormatKeepsState ==
  Configured =>
    \A channelCount \in ChannelCounts \cup UnsupportedChannelCounts :
      \A sampleRate \in SampleRates \cup InvalidSampleRates :
        \A maxDelayMilliseconds \in MaxDelays :
          (channelCount \in UnsupportedChannelCounts
           \/ sampleRate \in InvalidSampleRates) =>
            LET after == SetRenderingFormat(kernel, channelCount, sampleRate,
                                            maxDelayMilliseconds)
            IN /\ after.samplesPerMillisecond_ = kernel.samplesPerMillisecond_
               /\ after.lfos_ = kernel.lfos_
               /\ after.delayLines_ = kernel.delayLines_

----------------------------------------------------------------------------
(* C13 *)

PercentAddresses == {"Depth", "Dry", "Wet"}

\* percentages outside the legal domain 0..100
OutOfRangePercents == {-50, 150}

\* every frame of the result computed with fractions in [0, 1]
UsedInUnit(r) ==
  \A f \in 1..Len(r.used) :
    /\ InUnit(r.used[f].depth)
    /\ InUnit(r.used[f].wetMix)
    /\ InUnit(r.used[f].dryMix)

----------------------------------------------------------------------------
(* C14 *)

\* the one-oscillator kernel of Kernel.hpp holding the parameters, the
\* first oscillator and the delay lines of k
AsSingleOscillator(k) ==
  [k EXCEPT !.variant = "hpp", !.lfos_ = <<k.lfos_[1]>>]

\* C14: with an oscillator count of 1 the N-oscillator kernel gives for
\* every input, parameter setting and channel the same output as the
\* one-oscillator kernel: the same tap offsets, the same delay line reads
\* and writes, the same mix.
C14_OneOscillatorEquivalence ==
  (Configured /\ IsMulti(kernel) /\ kernel.lfoCount_ = 1
   /\ ~IsRamping(kernel)) =>
    \A ins \in Blocks(ChannelCount) :
      LET multi == DoRendering(kernel, ins)
          single == DoRendering(AsSingleOscillator(kernel), ins)
      IN /\ multi.outs = single.outs
         /\ \A f \in 1..Len(ins) : \A c \in 0..(ChannelCount - 1) :
              {e.offset : e \in ReadsOf(multi, f, c)}
                = {e.offset : e \in ReadsOf(single, f, c)}
         /\ multi.k.delayLines_ = single.k.delayLines_

----------------------------------------------------------------------------
(* C15 *)

\* a call the caller's contract rules out: the README kernel asked for
\* more than one frame while a parameter ramps
OutsideContract(k, frameCount) ==
  k.variant = "readme" /\ IsRamping(k) /\ frameCount > 1

\* C15: a render call with frame count F ends having consumed F input
\* frames and written F output frames on every channel; where the block is
\* split by rampRemaining_ (part_001) the frames rendered one at a time and
\* the frames rendered as one block total F, and rampRemaining_ goes down
\* by min(rampRemaining_, F) and not below 0.
C15_RendersAllFrames ==
  Configured =>
    \A F \in 1..MaxFrames :
      ~OutsideContract(kernel, F) =>
        \A r \in {DoRendering(kernel, Silence(F))} :
          /\ Len(r.outs) = F
          /\ Len(r.used) = F
          /\ \A f \in 1..F :
               /\ Len(r.outs[f]) = ChannelCount
               /\ Len(r.logs[f]) = ChannelCount
          /\ kernel.variant = "p001" =>
               LET rampCount == Min(kernel.rampRemaining_, F)
                   ramped ==
                     P001RampLoop(
                       NoFrames([kernel EXCEPT !.rampRemaining_ = @ - rampCount]),
                       Silence(F), rampCount)
               IN /\ Len(ramped.outs) = rampCount
                  /\ Len(r.outs) - Len(ramped.outs) = F - rampCount
                  /\ r.k.rampRemaining_ = kernel.rampRemaining_ - rampCount
                  /\ r.k.rampRemaining_ >= 0

\* part_001 with one frame of a ramp left, so that a call for two frames
\* renders one frame alone and one as a block
C15_Witness ==
  /\ Configured
  /\ kernel.variant = "p001"
  /\ kernel.rampRemaining_ = 1

----------------------------------------------------------------------------
(* C16 *)

\* formats a reconfiguration may change to, beyond those of the machine
ReconfiguredSampleRates == SampleRates \cup {2000}
ReconfiguredMaxDelays == MaxDelays \cup {2}

\* C16: after any sequence of format configurations the kernel holds one
\* delay line per channel of the most recent configuration, each with the
\* capacity the most recent sample rate and maximum delay imply and holding
\* silence only, and samplesPerMillisecond is the most recent sample rate
\* divided by 1000.
C16_ReconfigurationClears ==
  /\ Configured =>
       /\ Len(kernel.delayLines_) = format.channelCount
       /\ kernel.samplesPerMillisecond_ = format.sampleRate \div 1000
  /\ \A channelCount \in ChannelCounts :
       \A sampleRate \in ReconfiguredSampleRates :
         \A maxDelayMilliseconds \in ReconfiguredMaxDelays :
           LET after == SetRenderingFormat(kernel, channelCount, sampleRate,
                                           maxDelayMilliseconds)
           IN /\ Len(after.delayLines_) = channelCount
              /\ after.samplesPerMillisecond_ = sampleRate \div 1000
              /\ \A c \in 1..channelCount :
                   /\ Len(after.delayLines_[c]) =
                        maxDelayMilliseconds * (sampleRate \div 1000) * 2 + 1
                   /\ \A i \in 1..Len(after.delayLines_[c]) :
                        after.delayLines_[c][i] = 0

\* two channels whose delay lines both hold a signal
C16_Witness ==
  /\ Configured
  /\ ChannelCount = 2
  /\ \A c \in 1..ChannelCount : \E i \in 1..Len(kernel.delayLines_[c]) :
       kernel.delayLines_[c][i] # 0

----------------------------------------------------------------------------
(* C17 *)

\* the oscillator after n calls of increment
RECURSIVE Incremented(_, _)
Incremented(lfo, n) ==
  IF n = 0 THEN lfo ELSE Incremented(LfoIncrement(lfo), n - 1)

\* the taps of oscillator index in frame f of a block rendered from k with
\* settled parameters, when the oscillator's value() and quadPhaseValue()
\* are read after f - 1 increments
TapsBeforeIncrement(k, index, f) ==
  LET lfo == Incremented(k.lfos_[index], f - 1)
      nominal == RampGet(k.delay_)
      fraction == RampGet(k.depth_)
  IN CASE k.variant = "hpp" -> HppTaps(lfo, nominal, nominal * fraction)
       [] k.variant = "p001" ->
            P001Taps(lfo, nominal,
                     Max(nominal * MinTapReciprocal - 1, 0) * fraction)
       [] OTHER ->
            CalcTap(k, lfo, nominal, CalcDisplacement(k, nominal, fraction),
                    BoolGet(k.odd90_))

\* C17: each active oscillator is incremented exactly once per rendered
\* frame, whatever the number of channels and the render strategy, and in
\* a frame value() and quadPhaseValue() are read before the increment.
C17_OneIncrementPerFrame ==
  (Configured /\ ~IsRamping(kernel)) =>
    \A F \in 1..MaxFrames :
      \A r \in {DoRendering(kernel, Silence(F))} :
        /\ \A index \in 1..Len(kernel.lfos_) :
             r.k.lfos_[index] =
               IF index <= kernel.lfoCount_
               THEN Incremented(kernel.lfos_[index], F)
               ELSE kernel.lfos_[index]
        /\ \A f \in 1..F : \A index \in 1..kernel.lfoCount_ :
             r.taps[f][index] = TapsBeforeIncrement(kernel, index, f)

\* two channels, two oscillators that turn and have turned, quadrature
\* taps in use and a displacement that is not zero
C17_Witness ==
  /\ Configured
  /\ ~IsRamping(kernel)
  /\ ChannelCount = 2
  /\ kernel.lfoCount_ = 2
  /\ RampCurrent(kernel.lfos_[1].frequency) > 0
  /\ kernel.lfos_[1].phase # 0
  /\ BoolGet(kernel.odd90_)
  /\ RampGet(kernel.depth_) > 0

----------------------------------------------------------------------------
(* C18 *)

\* the write events of channel c (counted from 0) in frame f of a result
WritesOf(r, f, c) ==
  {i \in 1..Len(r.logs[f][c + 1]) : r.logs[f][c + 1][i].op = "write"}

\* the delay line after the samples of channel c of the first n frames of
\* ins were written to it, one write a frame
RECURSIVE Written(_, _, _, _)
Written(line, ins, c, n) ==
  IF n = 0 THEN line
  ELSE DelayWrite(Written(line, ins, c, n - 1), ins[n][c + 1])

\* C18: in every rendered frame the delay line of each channel receives
\* exactly one write, of the raw input sample of the channel, for every
\* parameter setting, zero depth and zero displacement included; after F
\* frames each delay line has been written F times.
C18_OneWritePerFrame ==
  Configured =>
    \A ins \in MonoBlocks(ChannelCount, Samples) :
      \A r \in {DoRendering(kernel, ins)} :
        \A c \in 0..(ChannelCount - 1) :
          /\ \A f \in 1..Len(ins) :
               /\ Cardinality(WritesOf(r, f, c)) = 1
               /\ \A i \in WritesOf(r, f, c) :
                    r.logs[f][c + 1][i].sample = ins[f][c + 1]
          /\ r.k.delayLines_[c + 1] =
               Written(kernel.delayLines_[c + 1], ins, c, Len(ins))


----------------------------------------------------------------------------
(* C20 *)

\* assert(lfoCount <= MAX_LFOS) in Kernel::Kernel (part_000, README)
KernelAccepts(lfoCount) == lfoCount <= MaxLfos

\* the values of the size_t argument lfoCount the constructor accepts
AcceptedLfoCounts == {lfoCount \in 0..(MaxLfos + 1) : KernelAccepts(lfoCount)}

\* the quotient output / lfoCount_ of generate has a divisor that is not 0
GenerateDefined(k) == k.lfoCount_ # 0

\* the read events of one channel of one frame, by position in the log
ReadPositions(log) == {i \in 1..Len(log) : log[i].op = "read"}

\* the sum of the samples the first n events of a log read from line
RECURSIVE ReadSum(_, _, _)
ReadSum(line, log, n) ==
  IF n = 0 THEN 0
  ELSE ReadSum(line, log, n - 1)
       + (IF log[n].op = "read" THEN DelayRead(line, log[n].offset) ELSE 0)

\* the wet sample of channel c of frame f of the result r of rendering ins
\* is the average of the reads of the active oscillators
AverageOfActiveReads(k, ins, r, f, c) ==
  LET log == r.logs[f][c + 1]
      line == Written(k.delayLines_[c + 1], ins, c, f - 1)
  IN /\ DOMAIN r.taps[f] = 1..k.lfoCount_
     /\ Cardinality(ReadPositions(log)) = k.lfoCount_
     /\ {log[i].lfo : i \in ReadPositions(log)} = 1..k.lfoCount_
     /\ \A i \in ReadPositions(log) :
          log[i].offset \in {r.taps[f][log[i].lfo].even.offset,
                             r.taps[f][log[i].lfo].odd.offset}
     /\ r.wets[f][c + 1] = Div(ReadSum(line, log, Len(log)), k.lfoCount_)

\* C20: for every oscillator count the constructor accepts the division by
\* lfoCount in generate is defined, and in every frame the wet sample of a
\* channel is the sum of exactly lfoCount delay-line reads, one per active
\* oscillator with the taps of that frame, divided by lfoCount; no tap or
\* oscillator at an index >= lfoCount is read.
C20_WetIsAverageOfReads ==
  IsMulti(kernel) =>
    /\ \A lfoCount \in AcceptedLfoCounts :
         GenerateDefined(NewKernel(kernel.variant, lfoCount, 0))
    /\ Configured =>
         \A ins \in MonoBlocks(ChannelCount, Samples) :
           \A r \in {DoRendering(kernel, ins)} :
             \A f \in 1..Len(r.outs) :
               \A c \in 0..(ChannelCount - 1) :
                 AverageOfActiveReads(kernel, ins, r, f, c)


----------------------------------------------------------------------------
(* C21 *)

\* the kernel after a change of the parameter at address with a ramp of
\* duration frames and then frames rendered one a call, with no other change
AfterRampAndFrames(k, address, value, duration, frames) ==
  OneAtATime(NoFrames(SetParameterValue(k, address, value, duration)),
             Silence(frames)).k

\* C21: every ramp ends: after a parameter change with a ramp of N > 0
\* frames on any of the six addresses, Rate included, N rendered frames
\* with no further parameter change leave no parameter ramping.
C21_EveryRampEnds ==
  Configured =>
    \A address \in Addresses :
      ~OtherIsRamping(kernel, address) =>
        \A value \in ValuesOf(address) :
          ~IsRamping(AfterRampAndFrames(kernel, address, value, MaxRamp,
                                        MaxRamp))

====
